---- MODULE Spec2Model ----
(***************************************************************************)
(* Health-checking core of virtual-kubelet: the readiness tracker          *)
(* (manager/prober/prober.go, package manager), the liveness dispatcher    *)
(* (manager/liveness.go), the probe engine (manager/prober/prober.go,      *)
(* package prober) and the provider error taxonomy                         *)
(* (providers/errors/errors.go).                                           *)
(*                                                                         *)
(* Each component has its own specification over the shared variables:     *)
(* SpecReadiness, SpecLiveness, SpecProbe and SpecErrors.                  *)
(***************************************************************************)
EXTENDS Integers, Sequences, FiniteSets, TLC

VARIABLES
    pods,        \* the workload store: what rm.GetPods() returns, in order
    storeChanges,\* number of changes the store has made to its workloads
    readiness,   \* readinessManager.readiness: ns -> pod -> container -> bool
    lastCall,    \* the tracker call that returned last, with its arguments and result
    rawUpdates,  \* resultsManager.Updates(): raw probe results not yet consumed
    produced,    \* number of raw updates the probe workers have sent so far
    lpc,         \* position of the dispatcher's goroutine
    cur,         \* the raw update being handled (kept until the next one is taken)
    scanPods,    \* the slice rm.GetPods() returned to the running updatePodLiveness
    scanIdx,     \* index of the last workload the scan has looked at
    curSent,     \* the LivenessUpdates sent while handling cur, in order
    updates,     \* livenessManager.updates: the outbound channel's buffer
    ctxDone,     \* whether ctx.Done() is closed
    ppc,         \* position of the probe cycle
    probeIn,     \* arguments of the running probe(): the probe spec and the container
    attempt,     \* loop counter i of runProbeWithRetries
    tries,       \* outcome (result, output, err) of each runProbe call of the cycle
    invoked,     \* probe primitives invoked in the cycle, in order
    cycleRet,    \* what runProbeWithRetries returned
    probeRet,    \* what probe() returned
    errVal,      \* the error value handed to the classifiers
    errOut,      \* what IsNotFound, IsRetryable and SuggestsClientDelay returned for it
    errBuilt,    \* the construction helper call that made errVal, when one made it
    headerIn,    \* the headerList handed to buildHeader
    headerOut,   \* the http.Header buildHeader returned for it
    consumedLog, \* history: each raw update the dispatcher took, with the workloads it read
    deliveredLog,\* history: the LivenessUpdates the consumers received, in order
    lock,        \* readinessManager.lock: the goroutine writing and those reading under it
    setter,      \* the goroutines inside SetContainerReadiness: position, arguments, locals
    getter,      \* the goroutines calling GetPodContainersReadiness, with what they hold
    setDone      \* history: the arguments of the SetContainerReadiness calls that returned

storeVars == <<pods, storeChanges>>
readyVars == <<readiness, lastCall>>
liveVars  == <<rawUpdates, produced, lpc, cur, scanPods, scanIdx, curSent, updates, ctxDone>>
probeVars == <<ppc, probeIn, attempt, tries, invoked, cycleRet, probeRet>>
errVars   == <<errVal, errOut, errBuilt>>
hdrVars   == <<headerIn, headerOut>>
logVars   == <<consumedLog, deliveredLog>>
concVars  == <<lock, setter, getter, setDone>>
vars      == <<storeVars, readyVars, liveVars, probeVars, errVars, hdrVars, logVars, concVars>>

None == "none"

\* the value of a variable nothing has been stored in yet
Unset == [unset |-> TRUE]

\* a nil pointer to a struct
NilPtr == [nil |-> TRUE]

\* ------------------------------------------------------------------ helpers

\* the least and the greatest member of a set of indexes, 0 for the empty set
MinOf(S) == IF S = {} THEN 0 ELSE CHOOSE i \in S : \A j \in S : i <= j
MaxOf(S) == IF S = {} THEN 0 ELSE CHOOSE i \in S : \A j \in S : i >= j

\* s without its i-th element
RemoveAt(s, i) == [k \in 1..(Len(s) - 1) |-> IF k < i THEN s[k] ELSE s[k + 1]]

\* a Go map with key k set to v
MapPut(m, k, v) == [x \in DOMAIN m \cup {k} |-> IF x = k THEN v ELSE m[x]]

\* the nil (equally: empty) Go map
EmptyMap == [x \in {} |-> FALSE]

\* ------------------------------------------------------------ workload store

PodRunning   == "Running"
PodSucceeded == "Succeeded"
PodFailed    == "Failed"
podStatusReasonProviderFailed == "ProviderFailed"

\* kubecontainer.ContainerID{Type, ID}.String() is Type + "://" + ID
ContainerIDString(containerID) == <<containerID.Type, "://", containerID.ID>>

DockerID(id) == [Type |-> "docker", ID |-> id]

ContainerStatus(name, id) == [Name |-> name, ContainerID |-> ContainerIDString(DockerID(id))]

Pod(ns, name, uid, statuses) ==
    [Namespace |-> ns, Name |-> name, UID |-> uid, Phase |-> PodRunning, Reason |-> "",
     Deleted |-> FALSE, ContainerStatuses |-> statuses]

\* the workloads the store holds at startup; the store keeps unique-ids unique
InitPods ==
    << Pod("default", "web", "u1", <<ContainerStatus("app", "c1"), ContainerStatus("sidecar", "c2")>>),
       Pod("default", "db", "u2", <<ContainerStatus("app", "c3")>>) >>

UIDs == {"u1", "u2", "u9"}
ContainerIDs == {DockerID("c1"), DockerID("c2"), DockerID("c3"), DockerID("c9")}
Namespaces == {"default", "other"}
PodNames == {"web", "db"}

\* the store is owned by the resource manager: a workload's phase, reason and
\* deletion marker change, and a workload goes away, outside this core
StorePodChanges(p) ==
    {[p EXCEPT !.Phase = ph] : ph \in {PodSucceeded, PodFailed}}
    \cup {[p EXCEPT !.Reason = podStatusReasonProviderFailed]}
    \cup {[p EXCEPT !.Deleted = TRUE]}

\* changes the store makes to its workloads in a run
MaxStoreChanges == 1

StoreUpdatePod ==
    /\ storeChanges < MaxStoreChanges
    /\ storeChanges' = storeChanges + 1
    /\ \E i \in 1..Len(pods) : \E q \in StorePodChanges(pods[i]) :
          /\ q # pods[i]
          /\ pods' = [pods EXCEPT ![i] = q]

StoreRemovePod ==
    /\ storeChanges < MaxStoreChanges
    /\ storeChanges' = storeChanges + 1
    /\ \E i \in 1..Len(pods) : pods' = RemoveAt(pods, i)

\* ---------------------------------------------------------- readiness tracker

\* lines 240-245: the scan has no break, the last workload with the uid wins
FindTargetPod(ps, podUID) ==
    MaxOf({i \in 1..Len(ps) : ps[i].UID = podUID})

\* lines 256-257: the first container status with the runtime id
FindContainerStatus(statuses, cid) ==
    MinOf({i \in 1..Len(statuses) : statuses[i].ContainerID = cid})

\* the write with each level put into its parent
WriteReadinessStored(rd, namespace, name, c, ready) ==
    LET ns  == IF namespace \in DOMAIN rd THEN rd[namespace] ELSE EmptyMap
        pod == IF name \in DOMAIN ns THEN ns[name] ELSE EmptyMap
    IN MapPut(rd, namespace, MapPut(ns, name, MapPut(pod, c, ready)))

\* lines 263-273 with the store as the code leaves it: a level that is missing
\* is made as a fresh map (lines 265, 270) that is never put into its parent, so
\* the write of line 273 reaches m.readiness only when both levels are in it
WriteReadiness(rd, namespace, name, c, ready) ==
    IF namespace \in DOMAIN rd /\ name \in DOMAIN rd[namespace]
    THEN [rd EXCEPT ![namespace][name] = MapPut(@, c, ready)]
    ELSE rd

\* SetContainerReadiness that writes when no container status has the runtime id
SetReadinessUnguarded(rd, ps, podUID, containerID, ready) ==
    LET t == FindTargetPod(ps, podUID) IN
    IF t = 0 THEN rd
    ELSE LET st == ps[t].ContainerStatuses
             k  == FindContainerStatus(st, ContainerIDString(containerID))
         IN WriteReadinessStored(rd, ps[t].Namespace, ps[t].Name,
                                 IF k = 0 THEN containerID.ID ELSE st[k].Name, ready)

\* SetContainerReadiness that builds the three levels anew around its entry
SetReadinessFresh(rd, ps, podUID, containerID, ready) ==
    LET t == FindTargetPod(ps, podUID) IN
    IF t = 0 THEN rd
    ELSE LET st == ps[t].ContainerStatuses
             k  == FindContainerStatus(st, ContainerIDString(containerID))
         IN IF k = 0 THEN rd
            ELSE WriteReadinessStored(EmptyMap, ps[t].Namespace, ps[t].Name, st[k].Name, ready)

\* the value of m.readiness after SetContainerReadiness(podUID, containerID, ready)
SetReadiness(rd, ps, podUID, containerID, ready) ==
    LET t == FindTargetPod(ps, podUID) IN
    IF t = 0 THEN rd
    ELSE LET st == ps[t].ContainerStatuses
             k  == FindContainerStatus(st, ContainerIDString(containerID))
         IN IF k = 0 THEN rd
            ELSE WriteReadiness(rd, ps[t].Namespace, ps[t].Name, st[k].Name, ready)

\* the mapping GetPodContainersReadiness(namespace, pod) returns (nil as the empty map)
GetReadiness(rd, namespace, pod) ==
    IF namespace \in DOMAIN rd /\ pod \in DOMAIN rd[namespace]
    THEN rd[namespace][pod]
    ELSE EmptyMap

SetContainerReadiness(podUID, containerID, ready) ==
    /\ readiness' = SetReadiness(readiness, pods, podUID, containerID, ready)
    /\ lastCall' = [op |-> "SetContainerReadiness", podUID |-> podUID,
                    containerID |-> containerID, ready |-> ready]
    /\ UNCHANGED storeVars

GetPodContainersReadiness(namespace, pod) ==
    /\ lastCall' = [op |-> "GetPodContainersReadiness", namespace |-> namespace,
                    pod |-> pod, ret |-> GetReadiness(readiness, namespace, pod)]
    /\ UNCHANGED <<storeVars, readiness>>

\* ------------------------------------------- the tracker's calls step by step

\* calls each goroutine makes in a run
MaxCallsEach == 1

Setters == {"w1", "w2"}
Getters == {"r1"}

\* arguments the concurrent callers use
SetArgs ==
    [podUID : {"u1", "u9"}, containerID : {DockerID("c1"), DockerID("c2")}, ready : BOOLEAN]
GetArgs == [namespace : {"default"}, pod : PodNames]

\* sync.RWMutex: Lock() needs no holder at all, RLock() no writer
CanLock  == lock.writer = None /\ lock.readers = {}
CanRLock == lock.writer = None

\* lines 239-258: the scans that come before the lock; a call that resolves
\* no workload or no container status returns without taking it
SetScan(p) ==
    /\ setter[p].pc = "idle"
    /\ setter[p].calls < MaxCallsEach
    /\ \E args \in SetArgs :
          LET t == FindTargetPod(pods, args.podUID)
              k == IF t = 0 THEN 0
                   ELSE FindContainerStatus(pods[t].ContainerStatuses,
                                            ContainerIDString(args.containerID))
          IN IF k = 0
             THEN /\ setter' = [setter EXCEPT ![p].calls = @ + 1]
                  /\ setDone' = setDone \cup {args}
             ELSE /\ setter' = [setter EXCEPT ![p].pc = "lock", ![p].args = args,
                                   ![p].target = [Namespace |-> pods[t].Namespace,
                                                  Name |-> pods[t].Name,
                                                  Container |-> pods[t].ContainerStatuses[k].Name]]
                  /\ UNCHANGED setDone
    /\ UNCHANGED <<storeVars, readyVars, lock, getter>>

\* line 260
SetLock(p) ==
    /\ setter[p].pc = "lock"
    /\ CanLock
    /\ lock' = [lock EXCEPT !.writer = p]
    /\ setter' = [setter EXCEPT ![p].pc = "write"]
    /\ UNCHANGED <<storeVars, readyVars, getter, setDone>>

\* lines 263-273
SetWrite(p) ==
    /\ setter[p].pc = "write"
    /\ readiness' = WriteReadiness(readiness, setter[p].target.Namespace, setter[p].target.Name,
                                   setter[p].target.Container, setter[p].args.ready)
    /\ setter' = [setter EXCEPT ![p].pc = "unlock"]
    /\ UNCHANGED <<storeVars, lastCall, lock, getter, setDone>>

\* lines 275-276 and the deferred Unlock of line 261
SetReturn(p) ==
    /\ setter[p].pc = "unlock"
    /\ lock' = [lock EXCEPT !.writer = None]
    /\ setDone' = setDone \cup {setter[p].args}
    /\ setter' = [setter EXCEPT ![p] = [pc |-> "idle", calls |-> @.calls + 1,
                                        args |-> Unset, target |-> Unset]]
    /\ UNCHANGED <<storeVars, readyVars, getter>>

\* line 305; after is the history of the calls that had returned by then
GetRLock(p) ==
    /\ getter[p].pc = "idle"
    /\ getter[p].calls < MaxCallsEach
    /\ CanRLock
    /\ lock' = [lock EXCEPT !.readers = @ \cup {p}]
    /\ \E args \in GetArgs :
          getter' = [getter EXCEPT ![p].pc = "read", ![p].args = args, ![p].after = setDone]
    /\ UNCHANGED <<storeVars, readyVars, setter, setDone>>

\* the map value lines 308-316 hand out: Go returns the inner map itself, not
\* a copy, so the caller holds a reference to the level stored under
\* (namespace, pod), or nil; seen is what the map held at that moment
MapRef(rd, namespace, pod) ==
    [ref  |-> IF namespace \in DOMAIN rd /\ pod \in DOMAIN rd[namespace]
              THEN [namespace |-> namespace, pod |-> pod] ELSE NilPtr,
     seen |-> GetReadiness(rd, namespace, pod)]

\* what a map reference shows now
Deref(rd, ref) == IF ref = NilPtr THEN EmptyMap ELSE GetReadiness(rd, ref.namespace, ref.pod)

\* lines 308-316
GetRead(p) ==
    /\ getter[p].pc = "read"
    /\ getter' = [getter EXCEPT ![p].pc = "runlock",
                     ![p].ret = MapRef(readiness, getter[p].args.namespace, getter[p].args.pod)]
    /\ UNCHANGED <<storeVars, readyVars, lock, setter, setDone>>

\* the deferred RUnlock of line 306; the caller keeps what was returned
GetReturn(p) ==
    /\ getter[p].pc = "runlock"
    /\ lock' = [lock EXCEPT !.readers = @ \ {p}]
    /\ getter' = [getter EXCEPT ![p].pc = "idle", ![p].calls = @ + 1]
    /\ UNCHANGED <<storeVars, readyVars, setter, setDone>>

InitConcurrent ==
    /\ lock = [writer |-> None, readers |-> {}]
    /\ setter = [p \in Setters |-> [pc |-> "idle", calls |-> 0, args |-> Unset, target |-> Unset]]
    /\ getter = [p \in Getters |-> [pc |-> "idle", calls |-> 0, args |-> Unset,
                                     after |-> {}, ret |-> Unset]]
    /\ setDone = {}

\* lines 199-217: the status of the first workload with the unique-id
GetPodStatus(uid) ==
    LET j == MinOf({i \in 1..Len(pods) : pods[i].UID = uid}) IN
    /\ lastCall' = [op |-> "GetPodStatus", uid |-> uid,
                    ret |-> IF j = 0 THEN [ok |-> FALSE, Phase |-> "", Reason |-> ""]
                            ELSE [ok |-> TRUE, Phase |-> pods[j].Phase, Reason |-> pods[j].Reason]]
    /\ UNCHANGED <<storeVars, readiness>>

\* lines 220-223: logs only
Start ==
    /\ lastCall' = [op |-> "Start"]
    /\ UNCHANGED <<storeVars, readiness>>

\* lines 226-230: logs only
SetPodStatus(namespace, pod, phase) ==
    /\ lastCall' = [op |-> "SetPodStatus", namespace |-> namespace, pod |-> pod, phase |-> phase]
    /\ UNCHANGED <<storeVars, readiness>>

\* lines 285-289: logs only
TerminatePod(namespace, pod) ==
    /\ lastCall' = [op |-> "TerminatePod", namespace |-> namespace, pod |-> pod]
    /\ UNCHANGED <<storeVars, readiness>>

\* lines 292-296: logs only
RemoveOrphanedStatuses(podUIDs) ==
    /\ lastCall' = [op |-> "RemoveOrphanedStatuses", podUIDs |-> podUIDs]
    /\ UNCHANGED <<storeVars, readiness>>

InitReadiness ==
    /\ readiness = EmptyMap
    /\ lastCall = [op |-> None]

ReadinessCall ==
    \/ \E podUID \in UIDs, containerID \in ContainerIDs, ready \in BOOLEAN :
          SetContainerReadiness(podUID, containerID, ready)
    \/ \E namespace \in Namespaces, pod \in PodNames :
          GetPodContainersReadiness(namespace, pod)
    \/ \E uid \in UIDs : GetPodStatus(uid)
    \/ Start
    \/ \E namespace \in Namespaces, pod \in PodNames, phase \in {PodRunning, PodFailed} :
          SetPodStatus(namespace, pod, phase)
    \/ \E namespace \in Namespaces, pod \in PodNames : TerminatePod(namespace, pod)
    \/ \E podUIDs \in SUBSET UIDs : RemoveOrphanedStatuses(podUIDs)

\* -------------------------------------------------------- liveness dispatcher

Success == "Success"
Failure == "Failure"
Unknown == "Unknown"
Results == {Success, Failure, Unknown}

\* make(chan *LivenessUpdate, 20)
QueueCap == 20

\* raw updates the probe workers send in a run, and the most the stream buffers
MaxUpdates == 2
MaxStream == 1
MaxBurst == 22

\* line 75 with the two fields exchanged
LivenessUpdateSwapped(p) == [namespace |-> p.Name, pod |-> p.Namespace]

\* line 75: the notification for workload p
LivenessUpdate(p) == [namespace |-> p.Namespace, pod |-> p.Name]

\* lines 64-66, without the deletion marker of line 67
IsTerminatedNoDeletion(p) ==
    \/ p.Phase = PodSucceeded
    \/ p.Phase = PodFailed
    \/ p.Reason = podStatusReasonProviderFailed

\* lines 64-67
IsTerminated(p) ==
    \/ p.Phase = PodSucceeded
    \/ p.Phase = PodFailed
    \/ p.Reason = podStatusReasonProviderFailed
    \/ p.Deleted

\* lines 60-77 from the workload after index from: the scan runs to the next
\* workload with the update's unique-id (line 61 names it uid; line 74 shows it
\* is update.PodUID) and returns there when that workload is terminated, sends
\* when it is not, and returns when no workload is left
ScanNext(ps, update, from) ==
    LET j == MinOf({i \in 1..Len(ps) : i > from /\ ps[i].UID = update.PodUID})
    IN IF j = 0 \/ IsTerminated(ps[j])
       THEN [lpc |-> "select", idx |-> from]
       ELSE [lpc |-> "push", idx |-> j]

\* line 59 taking every result but Success
IsNotSuccess(update) == update.Result # Success

\* line 59: only a Failure result is looked at
IsFailure(update) == update.Result = Failure

\* the probe workers send a raw result on resultsManager.Updates(): one of
\* results for one of uids, at most max of them in all
ProbeWorkerSendFrom(uids, results, max) ==
    /\ produced < max
    /\ Len(rawUpdates) < MaxStream
    /\ \E uid \in uids, result \in results :
          rawUpdates' = Append(rawUpdates, [PodUID |-> uid, Result |-> result])
    /\ produced' = produced + 1
    /\ UNCHANGED <<storeVars, lpc, cur, scanPods, scanIdx, curSent, updates, ctxDone>>

ProbeWorkerSend == ProbeWorkerSendFrom(UIDs, Results, MaxUpdates)

\* a burst of failures: probes of workload u1 and of a workload the store
\* does not hold keep failing
BurstSend == ProbeWorkerSendFrom({"u1", "u9"}, {Failure}, MaxBurst)

\* line 75 on a channel that takes the value although its buffer is full
QueueHasRoomAtCap(q) == Len(q) <= QueueCap

\* line 32, line 75: a send completes only while the buffer holds fewer than 20
QueueHasRoom(q) == Len(q) < QueueCap

\* line 75 on a channel that merges a value into an equal one at its back
ChanSendCoalescing(q, v) == IF q # <<>> /\ q[Len(q)] = v THEN q ELSE Append(q, v)

\* line 75: the channel delivers in the order of the sends
ChanSend(q, v) == Append(q, v)

\* lines 42-43 and updatePodLiveness up to its return or its first send
DispatcherReceive ==
    /\ lpc = "select"
    /\ rawUpdates # <<>>
    /\ LET update == Head(rawUpdates) IN
          /\ cur' = update
          /\ rawUpdates' = Tail(rawUpdates)
          /\ curSent' = <<>>
          /\ IF IsFailure(update)
             THEN LET n == ScanNext(pods, update, 0) IN
                    /\ scanPods' = pods
                    /\ scanIdx' = n.idx
                    /\ lpc' = n.lpc
             ELSE /\ scanPods' = <<>>
                  /\ scanIdx' = 0
                  /\ lpc' = "select"
    /\ UNCHANGED <<storeVars, produced, updates, ctxDone>>

\* line 75, which blocks while the channel's buffer is full, and the scan after it
DispatcherPush ==
    /\ lpc = "push"
    /\ QueueHasRoom(updates)
    /\ updates' = ChanSend(updates, LivenessUpdate(scanPods[scanIdx]))
    /\ curSent' = Append(curSent, LivenessUpdate(scanPods[scanIdx]))
    /\ LET n == ScanNext(scanPods, cur, scanIdx) IN
          /\ scanIdx' = n.idx
          /\ lpc' = n.lpc
    /\ UNCHANGED <<storeVars, rawUpdates, produced, cur, scanPods, ctxDone>>

\* lines 40-41 with the loop emptying the outbound channel before it returns
DispatcherDoneDraining ==
    /\ lpc = "select"
    /\ ctxDone
    /\ lpc' = "exited"
    /\ updates' = <<>>
    /\ UNCHANGED <<storeVars, rawUpdates, produced, cur, scanPods, scanIdx, curSent, ctxDone>>

\* lines 40-41
DispatcherDone ==
    /\ lpc = "select"
    /\ ctxDone
    /\ lpc' = "exited"
    /\ UNCHANGED <<storeVars, rawUpdates, produced, cur, scanPods, scanIdx, curSent, updates, ctxDone>>

\* the owner of ctx cancels it
Cancel ==
    /\ ~ctxDone
    /\ ctxDone' = TRUE
    /\ UNCHANGED <<storeVars, rawUpdates, produced, lpc, cur, scanPods, scanIdx, curSent, updates>>

\* a consumer receives from GetLivenessUpdate()
ConsumerReceive ==
    /\ updates # <<>>
    /\ updates' = Tail(updates)
    /\ UNCHANGED <<storeVars, rawUpdates, produced, lpc, cur, scanPods, scanIdx, curSent, ctxDone>>

\* DispatcherReceive, remembering the update taken and what rm.GetPods()
\* returned while it was handled (nothing when line 60 was not reached)
LoggedDispatcherReceive ==
    /\ DispatcherReceive
    /\ consumedLog' = Append(consumedLog, [update |-> Head(rawUpdates), pods |-> scanPods'])
    /\ UNCHANGED deliveredLog

\* ConsumerReceive, remembering the LivenessUpdate received
LoggedConsumerReceive ==
    /\ ConsumerReceive
    /\ deliveredLog' = Append(deliveredLog, Head(updates))
    /\ UNCHANGED consumedLog

InitLiveness ==
    /\ rawUpdates = <<>>
    /\ produced = 0
    /\ lpc = "select"
    /\ cur = [PodUID |-> None, Result |-> None]
    /\ scanPods = <<>>
    /\ scanIdx = 0
    /\ curSent = <<>>
    /\ updates = <<>>
    /\ ctxDone = FALSE

\* ----------------------------------------------------------------- probe engine

\* a nil error
Nil == "nil"

\* for i := 0; i < 3; i++
MaxAttempts == 3

\* port < 65536
PortLimit == 65536

\* strings whose text the code reads are sequences of characters
Digits == <<"0", "1", "2", "3", "4", "5", "6", "7", "8", "9">>

IsDigit(c) == \E i \in 1..10 : Digits[i] = c

DigitVal(c) == (CHOOSE i \in 1..10 : Digits[i] = c) - 1

RECURSIVE DigitsValue(_)
DigitsValue(s) ==
    IF s = <<>> THEN 0
    ELSE DigitsValue(SubSeq(s, 1, Len(s) - 1)) * 10 + DigitVal(s[Len(s)])

\* strconv.Atoi on a string short enough not to overflow: an optional sign and
\* one or more decimal digits; anything else is a syntax error with value 0
Atoi(s) ==
    LET signed == s # <<>> /\ s[1] \in {"+", "-"}
        body == IF signed THEN Tail(s) ELSE s
    IN IF body = <<>> \/ \E i \in 1..Len(body) : ~IsDigit(body[i])
       THEN [val |-> 0, err |-> "strconv.Atoi: invalid syntax"]
       ELSE [val |-> IF signed /\ s[1] = "-" THEN 0 - DigitsValue(body) ELSE DigitsValue(body),
             err |-> Nil]

\* intstr.IntOrString
IntRef(n) == [Type |-> "Int", IntVal |-> n, StrVal |-> <<>>]
StrRef(s) == [Type |-> "String", IntVal |-> 0, StrVal |-> s]
NoKindRef == [Type |-> "Other", IntVal |-> 0, StrVal |-> <<>>]

ContainerPort(name, number) == [Name |-> name, ContainerPort |-> number]

\* the declared ports of the probed container
ProbedContainer ==
    [Ports |-> << ContainerPort(<<"h", "t", "t", "p">>, 8080),
                  ContainerPort(<<"8", "0">>, 9090),
                  ContainerPort(<<"z">>, 0),
                  ContainerPort(<<"h", "t", "t", "p">>, 8081) >>]

PortRefs ==
    {IntRef(n) : n \in {0 - 1, 0, 1, 80, PortLimit - 1, PortLimit}}
    \cup {StrRef(s) : s \in { <<"h", "t", "t", "p">>, <<"8", "0">>, <<"z">>, <<"4", "4", "3">>,
                              <<"0">>, <<"-", "1">>, <<"7", "0", "0", "0", "0">>,
                              <<"w", "e", "b">>, <<"8", "0", "x">>, <<>> }}
    \cup {NoKindRef}

FewRefs == {IntRef(80), IntRef(0)}

\* lines 143-151
findPortByName(container, portName) ==
    LET i == MinOf({k \in 1..Len(container.Ports) : container.Ports[k].Name = portName})
    IN IF i # 0
       THEN [port |-> container.Ports[i].ContainerPort, err |-> Nil]
       ELSE [port |-> 0, err |-> "port not found"]

\* line 137 accepting port 0
PortInRangeFromZero(port) == port >= 0 /\ port < PortLimit

\* line 137
PortInRange(port) == port > 0 /\ port < PortLimit

\* lines 121-141 with the name parsed as an integer before the declared ports
\* are looked at
extractPortParseFirst(param, container) ==
    LET byName == findPortByName(container, param.StrVal)
        parsed == Atoi(param.StrVal)
        Checked(port) ==
            IF PortInRange(port)
            THEN [port |-> port, err |-> Nil]
            ELSE [port |-> port, err |-> "invalid port number"]
    IN CASE param.Type = "Int" -> Checked(param.IntVal)
         [] param.Type = "String" ->
               IF parsed.err = Nil THEN Checked(parsed.val)
               ELSE IF byName.err = Nil THEN Checked(byName.port)
               ELSE [port |-> parsed.val, err |-> parsed.err]
         [] OTHER -> [port |-> 0 - 1, err |-> "IntOrString had no kind"]

\* lines 121-141
extractPort(param, container) ==
    LET byName == findPortByName(container, param.StrVal)
        parsed == Atoi(param.StrVal)
        Checked(port) ==
            IF PortInRange(port)
            THEN [port |-> port, err |-> Nil]
            ELSE [port |-> port, err |-> "invalid port number"]
    IN CASE param.Type = "Int" -> Checked(param.IntVal)
         [] param.Type = "String" ->
               IF byName.err = Nil THEN Checked(byName.port)
               ELSE IF parsed.err # Nil THEN [port |-> parsed.val, err |-> parsed.err]
               ELSE Checked(parsed.val)
         [] OTHER -> [port |-> 0 - 1, err |-> "IntOrString had no kind"]

\* v1.Probe: each handler is nil or populated
ProbeOf(exec, httpGet, tcpSocket) == [Exec |-> exec, HTTPGet |-> httpGet, TCPSocket |-> tcpSocket]

ExecAction == [Command |-> <<"true">>]
HTTPGetAction(ref) == [Port |-> ref]
TCPSocketAction(ref) == [Port |-> ref]

\* the probe declarations a cycle is started with; NilPtr is no declaration
ProbeSpecs ==
    {NilPtr}
    \cup {ProbeOf(NilPtr, h, t) :
            h \in {NilPtr} \cup {HTTPGetAction(r) : r \in PortRefs},
            t \in {NilPtr} \cup {TCPSocketAction(r) : r \in FewRefs}}
    \cup {ProbeOf(NilPtr, h, t) :
            h \in {NilPtr} \cup {HTTPGetAction(r) : r \in FewRefs},
            t \in {NilPtr} \cup {TCPSocketAction(r) : r \in PortRefs}}
    \cup {ProbeOf(ExecAction, h, t) :
            h \in {NilPtr} \cup {HTTPGetAction(r) : r \in FewRefs},
            t \in {NilPtr} \cup {TCPSocketAction(r) : r \in FewRefs}}

\* what a probe primitive (exec, http, tcp) can return
PrimOutcomes ==
    [result : Results, output : {"a", "b"}, err : {Nil, "transport error"}]

\* lines 117-118 returning success
RunProbeNoHandlerSuccess == [result |-> Success, output |-> "", err |-> Nil]

\* lines 117-118
RunProbeNoHandler == [result |-> Unknown, output |-> "", err |-> "Missing probe handler"]

\* lines 81-119: the outcome of one runProbe call and the primitive it invoked
\* (NilPtr when it invoked none), prim being what that primitive returns
runProbe(p, container, prim) ==
    IF p.Exec # NilPtr
    THEN [ret |-> prim, call |-> [prober |-> "exec", port |-> 0]]
    ELSE IF p.HTTPGet # NilPtr
    THEN LET e == extractPort(p.HTTPGet.Port, container) IN
         IF e.err # Nil
         THEN [ret |-> [result |-> Unknown, output |-> "", err |-> e.err], call |-> NilPtr]
         ELSE [ret |-> prim, call |-> [prober |-> "http", port |-> e.port]]
    ELSE IF p.TCPSocket # NilPtr
    THEN LET e == extractPort(p.TCPSocket.Port, container) IN
         IF e.err # Nil
         THEN [ret |-> [result |-> Unknown, output |-> "", err |-> e.err], call |-> NilPtr]
         ELSE [ret |-> prim, call |-> [prober |-> "tcp", port |-> e.port]]
    ELSE [ret |-> RunProbeNoHandler, call |-> NilPtr]

\* line 64 ending the cycle only on a successful result
AttemptEndsCycleOnSuccess(r) == r.err = Nil /\ r.result = Success

\* line 64
AttemptEndsCycle(r) == r.err = Nil

\* line 62 with <=
LoopContinuesInclusive(i) == i <= MaxAttempts

\* line 62
LoopContinues(i) == i < MaxAttempts

\* lines 33-53
ProbeResult(r) ==
    IF r.err # Nil \/ r.result # Success
    THEN [result |-> Failure, err |-> r.err]
    ELSE [result |-> Success, err |-> Nil]

\* lines 25-32: probe() is entered; no declaration returns Success at once
ProbeStart ==
    /\ ppc = "idle"
    /\ \E p \in ProbeSpecs :
          /\ probeIn' = [probeSpec |-> p, container |-> ProbedContainer]
          /\ IF p = NilPtr
             THEN /\ ppc' = "done"
                  /\ probeRet' = [result |-> Success, err |-> Nil]
             ELSE /\ ppc' = "loop"
                  /\ probeRet' = probeRet
    /\ UNCHANGED <<attempt, tries, invoked, cycleRet>>

\* lines 62-68: one pass of the loop of runProbeWithRetries
RunProbeAttempt ==
    /\ ppc = "loop"
    /\ \E prim \in PrimOutcomes :
          LET r == runProbe(probeIn.probeSpec, probeIn.container, prim) IN
            /\ tries' = Append(tries, r.ret)
            /\ invoked' = IF r.call = NilPtr THEN invoked ELSE Append(invoked, r.call)
            /\ attempt' = attempt + 1
            /\ IF AttemptEndsCycle(r.ret)
               THEN /\ cycleRet' = [result |-> r.ret.result, output |-> r.ret.output, err |-> Nil]
                    /\ ppc' = "returned"
               ELSE IF LoopContinues(attempt + 1)
               THEN /\ cycleRet' = cycleRet
                    /\ ppc' = "loop"
               ELSE /\ cycleRet' = r.ret
                    /\ ppc' = "returned"
    /\ UNCHANGED <<probeIn, probeRet>>

\* lines 33-53: probe() turns the cycle's outcome into its own
ProbeFinish ==
    /\ ppc = "returned"
    /\ probeRet' = ProbeResult(cycleRet)
    /\ ppc' = "done"
    /\ UNCHANGED <<probeIn, attempt, tries, invoked, cycleRet>>

\* --------------------------------------------------------------- error taxonomy

ErrorReasonUnknown             == ""
ErrorReasonUnauthorized        == "Unauthorized"
ErrorReasonNotFound            == "NotFound"
ErrorReasonInternalServerError == "InternalServerError"
ErrorReasonServiceUnavailable  == "ServiceUnavailable"
ErrorReasonTooManyRequests     == "TooManyRequests"
ErrorReasonBadRequest          == "BadRequest"

ErrorReasons ==
    {ErrorReasonUnknown, ErrorReasonUnauthorized, ErrorReasonNotFound,
     ErrorReasonInternalServerError, ErrorReasonServiceUnavailable,
     ErrorReasonTooManyRequests, ErrorReasonBadRequest}

\* a Go int (64 bits) as its low 32 bits, read as a signed number, and the bits
\* above them, read as a signed number: the int is hi * 2^32 + (lo mod 2^32)
GoInt(hi, lo) == [hi |-> hi, lo |-> lo]

\* int32(n): the low 32 bits
ToInt32(n) == n.lo

\* int(v) of an int32 v: sign extension
FromInt32(v) == GoInt(IF v < 0 THEN 0 - 1 ELSE 0, v)

\* the retryAfterSeconds the construction helpers are called with
RetryAfterValues ==
    {GoInt(0, 0), GoInt(0, 1), GoInt(0, 5), GoInt(0 - 1, 0 - 1), GoInt(0 - 1, 0 - 30),
     GoInt(1, 0), GoInt(1, 7), GoInt(0, 0 - 2147483647), GoInt(0 - 1, 2147483647)}

Messages == {"m1", "m2"}
Causes == {Nil, "cause"}

OperationError(status) == [kind |-> "OperationError", ErrStatus |-> status]

ErrorStatus(reason, details, message, origErr) ==
    [Reason |-> reason, Details |-> details, Message |-> message, OrigErr |-> origErr]

ErrorDetails(seconds) == [RetryAfterSeconds |-> seconds]

NewNotFound(message, err) ==
    OperationError(ErrorStatus(ErrorReasonNotFound, NilPtr, message, err))

NewUnauthorized(message, err) ==
    OperationError(ErrorStatus(ErrorReasonUnauthorized, NilPtr, message, err))

\* lines 143-149 with a Details holding a zero hint
NewBadRequestWithDetails(message, err) ==
    OperationError(ErrorStatus(ErrorReasonBadRequest, ErrorDetails(0), message, err))

NewBadRequest(message, err) ==
    OperationError(ErrorStatus(ErrorReasonBadRequest, NilPtr, message, err))

NewTooManyRequests(message, retryAfterSeconds, err) ==
    OperationError(ErrorStatus(ErrorReasonTooManyRequests,
                               ErrorDetails(ToInt32(retryAfterSeconds)), message, err))

NewInternalServerError(message, retryAfterSeconds, err) ==
    OperationError(ErrorStatus(ErrorReasonInternalServerError,
                               ErrorDetails(ToInt32(retryAfterSeconds)), message, err))

NewServiceUnavailable(message, retryAfterSeconds, err) ==
    OperationError(ErrorStatus(ErrorReasonServiceUnavailable,
                               ErrorDetails(ToInt32(retryAfterSeconds)), message, err))

NewUnknownError(message, err) ==
    OperationError(ErrorStatus(ErrorReasonUnknown, NilPtr, message, err))

\* an error that does not implement Interface
PlainError(message) == [kind |-> "plain", Message |-> message]

\* the errors the construction helpers build
BuiltErrors ==
    {NewNotFound(m, c) : m \in Messages, c \in Causes}
    \cup {NewUnauthorized(m, c) : m \in Messages, c \in Causes}
    \cup {NewBadRequest(m, c) : m \in Messages, c \in Causes}
    \cup {NewUnknownError(m, c) : m \in Messages, c \in Causes}
    \cup {NewTooManyRequests(m, n, c) : m \in Messages, n \in RetryAfterValues, c \in Causes}
    \cup {NewInternalServerError(m, n, c) : m \in Messages, n \in RetryAfterValues, c \in Causes}
    \cup {NewServiceUnavailable(m, n, c) : m \in Messages, n \in RetryAfterValues, c \in Causes}

\* errors a provider builds from the exported structs, with any reason and details
LiteralErrors ==
    {OperationError(ErrorStatus(r, d, "m1", Nil)) :
        r \in ErrorReasons,
        d \in {NilPtr} \cup {ErrorDetails(v) : v \in {0 - 3, 0, 5}}}

ErrorValues == BuiltErrors \cup LiteralErrors \cup {PlainError(m) : m \in Messages}

\* lines 62-68 with NotFound as the reason of an error without a status
reasonForErrorDefaultNotFound(err) ==
    IF err.kind = "OperationError" THEN err.ErrStatus.Reason ELSE ErrorReasonNotFound

\* lines 62-68
reasonForError(err) ==
    IF err.kind = "OperationError" THEN err.ErrStatus.Reason ELSE ErrorReasonUnknown

\* lines 86-88
IsNotFound(err) == reasonForError(err) = ErrorReasonNotFound

\* lines 91-100: a Go case does not fall through, so the two empty cases leave
\* the switch and reach line 99
IsRetryable(err) ==
    LET reason == reasonForError(err) IN
    CASE reason = ErrorReasonTooManyRequests -> FALSE
      [] reason = ErrorReasonServiceUnavailable -> FALSE
      [] reason = ErrorReasonInternalServerError -> TRUE
      [] OTHER -> FALSE

\* lines 105-121 without the ServiceUnavailable case of lines 111-112
SuggestsClientDelayPositiveOnly(err) ==
    IF err.kind = "OperationError" /\ err.ErrStatus.Details # NilPtr
    THEN LET seconds == err.ErrStatus.Details.RetryAfterSeconds IN
         IF seconds > 0
         THEN [seconds |-> FromInt32(seconds), ok |-> TRUE]
         ELSE [seconds |-> GoInt(0, 0), ok |-> FALSE]
    ELSE [seconds |-> GoInt(0, 0), ok |-> FALSE]

\* lines 105-121
SuggestsClientDelay(err) ==
    IF err.kind = "OperationError" /\ err.ErrStatus.Details # NilPtr
    THEN LET seconds == err.ErrStatus.Details.RetryAfterSeconds IN
         IF err.ErrStatus.Reason = ErrorReasonServiceUnavailable
         THEN [seconds |-> FromInt32(seconds), ok |-> TRUE]
         ELSE IF seconds > 0
         THEN [seconds |-> FromInt32(seconds), ok |-> TRUE]
         ELSE [seconds |-> GoInt(0, 0), ok |-> FALSE]
    ELSE [seconds |-> GoInt(0, 0), ok |-> FALSE]

\* a caller classifies an error
Classify ==
    /\ \E err \in ErrorValues :
          /\ errVal' = err
          /\ errOut' = [done |-> TRUE, IsNotFound |-> IsNotFound(err), IsRetryable |-> IsRetryable(err),
                        SuggestsClientDelay |-> SuggestsClientDelay(err)]
    /\ errBuilt' = [helper |-> None]

\* the construction helpers that take a message and a cause
PlainHelpers == {"NewNotFound", "NewUnauthorized", "NewBadRequest", "NewUnknownError"}

\* the construction helpers that take retryAfterSeconds as well
RetryHelpers == {"NewTooManyRequests", "NewInternalServerError", "NewServiceUnavailable"}

\* lines 124-197: the error a helper call returns
Build(call) ==
    CASE call.helper = "NewNotFound" -> NewNotFound(call.message, call.err)
      [] call.helper = "NewUnauthorized" -> NewUnauthorized(call.message, call.err)
      [] call.helper = "NewBadRequest" -> NewBadRequest(call.message, call.err)
      [] call.helper = "NewUnknownError" -> NewUnknownError(call.message, call.err)
      [] call.helper = "NewTooManyRequests" ->
            NewTooManyRequests(call.message, call.retryAfterSeconds, call.err)
      [] call.helper = "NewInternalServerError" ->
            NewInternalServerError(call.message, call.retryAfterSeconds, call.err)
      [] call.helper = "NewServiceUnavailable" ->
            NewServiceUnavailable(call.message, call.retryAfterSeconds, call.err)

\* the helper calls a provider makes
HelperCalls ==
    [helper : PlainHelpers, message : Messages, err : Causes]
    \cup [helper : RetryHelpers, message : Messages, retryAfterSeconds : RetryAfterValues,
          err : Causes]

\* a caller builds an error with a construction helper and classifies it
ClassifyBuilt ==
    \E call \in HelperCalls :
        LET err == Build(call) IN
        /\ errBuilt' = call
        /\ errVal' = err
        /\ errOut' = [done |-> TRUE, IsNotFound |-> IsNotFound(err), IsRetryable |-> IsRetryable(err),
                      SuggestsClientDelay |-> SuggestsClientDelay(err)]

\* ------------------------------------------------------------- HTTP headers

MaxHeaders == 3

HeaderNames  == {"Accept", "X-Probe"}
HeaderValues == {"a", "b", "c"}

\* v1.HTTPHeader
HTTPHeader(name, value) == [Name |-> name, Value |-> value]

\* the header lists of a probe's HTTPGet action
HeaderLists ==
    UNION {[1..n -> {HTTPHeader(name, value) : name \in HeaderNames, value \in HeaderValues}]
              : n \in 0..MaxHeaders}

\* headers[name], the nil slice when the map lacks the name
HeaderGet(headers, name) == IF name \in DOMAIN headers THEN headers[name] ELSE <<>>

\* line 76 as http.Header.Set would do it: the value replaces the earlier ones
HeaderSet(headers, header) == MapPut(headers, header.Name, <<header.Value>>)

\* line 76: headers[header.Name] = append(headers[header.Name], header.Value)
HeaderAppend(headers, header) ==
    MapPut(headers, header.Name, Append(HeaderGet(headers, header.Name), header.Value))

RECURSIVE HeaderLoop(_, _, _)
\* lines 75-77: the range loop over headerList from index i on
HeaderLoop(headers, headerList, i) ==
    IF i > Len(headerList) THEN headers
    ELSE HeaderLoop(HeaderAppend(headers, headerList[i]), headerList, i + 1)

\* lines 73-79
buildHeader(headerList) == HeaderLoop(EmptyMap, headerList, 1)

\* a caller hands a header list to buildHeader (line 92)
BuildHeaderCall ==
    \E headerList \in HeaderLists :
        /\ headerIn' = headerList
        /\ headerOut' = [done |-> TRUE, headers |-> buildHeader(headerList)]

InitHeader ==
    /\ headerIn = <<>>
    /\ headerOut = [done |-> FALSE]

InitProbe ==
    /\ ppc = "idle"
    /\ probeIn = Unset
    /\ attempt = 0
    /\ tries = <<>>
    /\ invoked = <<>>
    /\ cycleRet = Unset
    /\ probeRet = Unset

InitErrors ==
    /\ errVal = PlainError("")
    /\ errOut = [done |-> FALSE]
    /\ errBuilt = [helper |-> None]

Init ==
    /\ pods = InitPods
    /\ storeChanges = 0
    /\ InitReadiness
    /\ InitLiveness
    /\ InitProbe
    /\ InitErrors
    /\ InitHeader
    /\ consumedLog = <<>>
    /\ deliveredLog = <<>>
    /\ InitConcurrent

NextReadiness ==
    \/ ReadinessCall /\ UNCHANGED <<liveVars, probeVars, errVars, hdrVars, logVars, concVars>>
    \/ StoreUpdatePod /\ UNCHANGED <<readyVars, liveVars, probeVars, errVars, hdrVars, logVars, concVars>>
    \/ StoreRemovePod /\ UNCHANGED <<readyVars, liveVars, probeVars, errVars, hdrVars, logVars, concVars>>

NextLiveness ==
    \/ ProbeWorkerSend /\ UNCHANGED <<readyVars, probeVars, errVars, hdrVars, logVars, concVars>>
    \/ DispatcherReceive /\ UNCHANGED <<readyVars, probeVars, errVars, hdrVars, logVars, concVars>>
    \/ DispatcherPush /\ UNCHANGED <<readyVars, probeVars, errVars, hdrVars, logVars, concVars>>
    \/ DispatcherDone /\ UNCHANGED <<readyVars, probeVars, errVars, hdrVars, logVars, concVars>>
    \/ Cancel /\ UNCHANGED <<readyVars, probeVars, errVars, hdrVars, logVars, concVars>>
    \/ ConsumerReceive /\ UNCHANGED <<readyVars, probeVars, errVars, hdrVars, logVars, concVars>>
    \/ StoreUpdatePod /\ UNCHANGED <<readyVars, liveVars, probeVars, errVars, hdrVars, logVars, concVars>>
    \/ StoreRemovePod /\ UNCHANGED <<readyVars, liveVars, probeVars, errVars, hdrVars, logVars, concVars>>

NextProbe ==
    \/ ProbeStart /\ UNCHANGED <<storeVars, readyVars, liveVars, errVars, hdrVars, logVars, concVars>>
    \/ RunProbeAttempt /\ UNCHANGED <<storeVars, readyVars, liveVars, errVars, hdrVars, logVars, concVars>>
    \/ ProbeFinish /\ UNCHANGED <<storeVars, readyVars, liveVars, errVars, hdrVars, logVars, concVars>>

NextErrors ==
    \/ Classify /\ UNCHANGED <<storeVars, readyVars, liveVars, probeVars, hdrVars, logVars, concVars>>
    \/ ClassifyBuilt /\ UNCHANGED <<storeVars, readyVars, liveVars, probeVars, hdrVars, logVars, concVars>>

NextHeader ==
    \/ BuildHeaderCall /\ UNCHANGED <<storeVars, readyVars, liveVars, probeVars, errVars, logVars, concVars>>

\* the dispatcher with the histories of what it took and what the consumers got
NextOrder ==
    \/ ProbeWorkerSend /\ UNCHANGED <<readyVars, probeVars, errVars, hdrVars, logVars, concVars>>
    \/ LoggedDispatcherReceive /\ UNCHANGED <<readyVars, probeVars, errVars, hdrVars, concVars>>
    \/ DispatcherPush /\ UNCHANGED <<readyVars, probeVars, errVars, hdrVars, logVars, concVars>>
    \/ DispatcherDone /\ UNCHANGED <<readyVars, probeVars, errVars, hdrVars, logVars, concVars>>
    \/ Cancel /\ UNCHANGED <<readyVars, probeVars, errVars, hdrVars, logVars, concVars>>
    \/ LoggedConsumerReceive /\ UNCHANGED <<readyVars, probeVars, errVars, hdrVars, concVars>>
    \/ StoreUpdatePod /\ UNCHANGED <<readyVars, liveVars, probeVars, errVars, hdrVars, logVars, concVars>>
    \/ StoreRemovePod /\ UNCHANGED <<readyVars, liveVars, probeVars, errVars, hdrVars, logVars, concVars>>

\* the send of line 75 and the return of line 41 as steps of the whole state
DispatcherPushStep ==
    DispatcherPush /\ UNCHANGED <<readyVars, probeVars, errVars, hdrVars, logVars, concVars>>
DispatcherDoneStep ==
    DispatcherDone /\ UNCHANGED <<readyVars, probeVars, errVars, hdrVars, logVars, concVars>>

\* the dispatcher under a burst of failures, over an unchanging store
NextBackpressure ==
    \/ BurstSend /\ UNCHANGED <<readyVars, probeVars, errVars, hdrVars, logVars, concVars>>
    \/ DispatcherReceive /\ UNCHANGED <<readyVars, probeVars, errVars, hdrVars, logVars, concVars>>
    \/ DispatcherPushStep
    \/ DispatcherDoneStep
    \/ Cancel /\ UNCHANGED <<readyVars, probeVars, errVars, hdrVars, logVars, concVars>>
    \/ ConsumerReceive /\ UNCHANGED <<readyVars, probeVars, errVars, hdrVars, logVars, concVars>>

\* the tracker under concurrent callers, over an unchanging store
NextConcurrent ==
    \/ \E p \in Setters : SetScan(p) /\ UNCHANGED <<liveVars, probeVars, errVars, hdrVars, logVars>>
    \/ \E p \in Setters : SetLock(p) /\ UNCHANGED <<liveVars, probeVars, errVars, hdrVars, logVars>>
    \/ \E p \in Setters : SetWrite(p) /\ UNCHANGED <<liveVars, probeVars, errVars, hdrVars, logVars>>
    \/ \E p \in Setters : SetReturn(p) /\ UNCHANGED <<liveVars, probeVars, errVars, hdrVars, logVars>>
    \/ \E p \in Getters : GetRLock(p) /\ UNCHANGED <<liveVars, probeVars, errVars, hdrVars, logVars>>
    \/ \E p \in Getters : GetRead(p) /\ UNCHANGED <<liveVars, probeVars, errVars, hdrVars, logVars>>
    \/ \E p \in Getters : GetReturn(p) /\ UNCHANGED <<liveVars, probeVars, errVars, hdrVars, logVars>>

SpecReadiness == Init /\ [][NextReadiness]_vars

SpecLiveness == Init /\ [][NextLiveness]_vars

\* the goroutine that runs a probe cycle keeps running, and every probe
\* primitive returns within its timeout
SpecProbe == Init /\ [][NextProbe]_vars /\ WF_vars(NextProbe)

SpecErrors == Init /\ [][NextErrors]_vars

SpecHeader == Init /\ [][NextHeader]_vars

SpecOrder == Init /\ [][NextOrder]_vars

SpecConcurrent == Init /\ [][NextConcurrent]_vars

\* the dispatcher's goroutine keeps running: a send the channel has room for
\* completes, and a select with ctx.Done() ready over and over picks it in the
\* end; producers, consumers and the owner of ctx are under no obligation
SpecBackpressure ==
    Init /\ [][NextBackpressure]_vars /\ WF_vars(DispatcherPushStep) /\ SF_vars(DispatcherDoneStep)
\* ======================================================================= claims

\* the (workload, container status) pairs of the store that uid and containerID name
Resolved(ps, podUID, containerID) ==
    {<<i, k>> \in (1..Len(ps)) \X (1..2) :
        /\ k <= Len(ps[i].ContainerStatuses)
        /\ ps[i].UID = podUID
        /\ ps[i].ContainerStatuses[k].ContainerID = ContainerIDString(containerID)}

\* what the Go lookup m[k] yields on a map of booleans: false for a missing key
Lookup(m, k) == IF k \in DOMAIN m THEN m[k] ELSE FALSE

\* C1: after SetContainerReadiness(uid, cid, r) for a workload of the store and a
\* container status of it with runtime id cid and name c, looking c up in the
\* mapping that GetPodContainersReadiness(ns, name) returns yields the value r
\* of the most recent call: true after setting true, false after setting false.
C1_ReadBackAfterSet ==
    lastCall.op = "SetContainerReadiness" =>
        \A ik \in Resolved(pods, lastCall.podUID, lastCall.containerID) :
            LET p == pods[ik[1]]
                c == p.ContainerStatuses[ik[2]].Name
                got == GetReadiness(readiness, p.Namespace, p.Name)
            IN Lookup(got, c) = lastCall.ready

\* C2: a SetContainerReadiness whose uid matches no workload of the store, or
\* whose cid matches no container status of the matched workload, leaves the
\* readiness mapping as it was: every GetPodContainersReadiness(ns, name)
\* returns after the call what it returned before it.
C2_UnresolvableSetIsNoOp ==
    [][ ( /\ lastCall'.op = "SetContainerReadiness"
          /\ Resolved(pods, lastCall'.podUID, lastCall'.containerID) = {} )
        => /\ readiness' = readiness
           /\ \A ns \in Namespaces \cup DOMAIN readiness', name \in PodNames :
                 GetReadiness(readiness', ns, name) = GetReadiness(readiness, ns, name) ]_vars

C2_Witness ==
    /\ lastCall.op = "SetContainerReadiness"
    /\ lastCall.podUID = "u1"
    /\ lastCall.containerID = DockerID("c3")
    /\ Len(pods) = 2
    /\ Resolved(pods, lastCall.podUID, lastCall.containerID) = {}

\* terminal as the claims word it: phase Succeeded or Failed, the provider-failed
\* reason, or a deletion marker
TerminalWorkload(p) ==
    \/ p.Phase \in {PodSucceeded, PodFailed}
    \/ p.Reason = podStatusReasonProviderFailed
    \/ p.Deleted

\* the workloads of ps with the update's unique-id
Matching(ps, update) == {i \in 1..Len(ps) : ps[i].UID = update.PodUID}

\* the step in which the dispatcher takes a raw update from the stream
TakesUpdate == Len(rawUpdates') < Len(rawUpdates)

\* C3: a consumed Failure update whose unique-id resolves to a workload that is
\* not terminal sends exactly one LivenessUpdate, with that workload's namespace
\* and name, and the send puts it at the back of the outbound queue.
C3_FailureForLiveWorkloadSendsOne ==
    /\ [] ( (lpc # "push" /\ cur.Result = Failure) =>
              \A i \in Matching(scanPods, cur) :
                  ~TerminalWorkload(scanPods[i]) =>
                      curSent = << [namespace |-> scanPods[i].Namespace,
                                    pod |-> scanPods[i].Name] >> )
    /\ [][ Len(curSent') > Len(curSent) =>
              /\ Len(curSent') = Len(curSent) + 1
              /\ updates' = Append(updates, curSent'[Len(curSent')]) ]_vars

C3_Witness ==
    /\ lpc = "select"
    /\ cur.Result = Failure
    /\ cur.PodUID = "u2"
    /\ curSent = << [namespace |-> "default", pod |-> "db"] >>
    /\ updates = curSent

\* C4: a Failure update whose workload is terminal when the dispatcher handles
\* it sends nothing: the handling never waits on the queue, and the step that
\* takes the update leaves the outbound queue as it was.
C4_TerminalWorkloadSendsNothing ==
    /\ [] ( cur.Result = Failure =>
              \A i \in Matching(scanPods, cur) :
                  TerminalWorkload(scanPods[i]) => (curSent = <<>> /\ lpc # "push") )
    /\ [][ ( /\ TakesUpdate
             /\ cur'.Result = Failure
             /\ \E i \in Matching(pods, cur') : TerminalWorkload(pods[i]) )
           => (updates' = updates /\ lpc' = "select") ]_vars

C4_Witness ==
    /\ lpc = "select"
    /\ cur.Result = Failure
    /\ \E i \in Matching(scanPods, cur) : scanPods[i].Deleted /\ scanPods[i].Phase = PodRunning
    /\ curSent = <<>>
    /\ produced = 1

\* C5: a raw update that is not a Failure, or a Failure update whose unique-id
\* matches no workload of the store, sends nothing, and the dispatcher is back
\* at the loop's select, where it takes the next raw update.
C5_DroppedUpdateSendsNothing ==
    [][ ( /\ TakesUpdate
          /\ cur'.Result # Failure \/ Matching(pods, cur') = {} )
        => /\ cur' = Head(rawUpdates)
           /\ updates' = updates
           /\ curSent' = <<>>
           /\ lpc' = "select" ]_vars

C5_Witness ==
    /\ lpc = "select"
    /\ cur.Result = Unknown
    /\ cur.PodUID = "u1"
    /\ curSent = <<>>
    /\ updates = <<>>
    /\ rawUpdates # <<>>

\* the first attempt of the cycle that returned no error, 0 when none has
FirstClean(ts) ==
    MinOf({k \in 1..Len(ts) : ts[k].err = Nil})

\* C6: the first attempt of a cycle that returns without an error ends the
\* cycle: no attempt follows it, and the cycle returns its result and output
\* with a nil error. A first attempt returning (Failure, out, nil) is returned
\* after one invocation of the probe primitive.
C6_CleanAttemptEndsCycle ==
    LET k == FirstClean(tries) IN
    /\ k # 0 =>
          /\ Len(tries) = k
          /\ ppc \in {"returned", "done"}
          /\ cycleRet = [result |-> tries[k].result, output |-> tries[k].output, err |-> Nil]
    /\ (tries # <<>> /\ tries[1].result = Failure /\ tries[1].err = Nil) =>
          (attempt = 1 /\ Len(invoked) = 1)

C6_Witness ==
    /\ ppc = "done"
    /\ tries = << [result |-> Failure, output |-> "b", err |-> Nil] >>
    /\ Len(invoked) = 1
    /\ cycleRet = [result |-> Failure, output |-> "b", err |-> Nil]

\* C7: when every attempt of a cycle returns an error there are exactly 3
\* attempts, made one after the other, the probe primitive is invoked in each
\* of them when it is invoked at all, and the cycle returns the result, output
\* and error of the 3rd; no cycle makes a 4th attempt, and every cycle ends.
C7_ThreeFailedAttempts ==
    /\ [] ( /\ attempt <= 3 /\ Len(tries) = attempt /\ Len(invoked) <= attempt
            /\ ( /\ ppc \in {"returned", "done"}
                 /\ tries # <<>>
                 /\ \A k \in 1..Len(tries) : tries[k].err # Nil )
               => /\ Len(tries) = 3
                  /\ cycleRet = tries[3]
                  /\ Len(invoked) \in {0, 3} )
    /\ [][ attempt' \in {attempt, attempt + 1} ]_vars
    /\ (ppc = "loop") ~> (ppc = "done")

C7_Witness ==
    /\ ppc = "done"
    /\ Len(invoked) = 3
    /\ \A k \in 1..3 : tries[k].err = "transport error"
    /\ tries[3].output = "b" /\ tries[1].output = "a"
    /\ cycleRet = tries[3]

\* the handler of p that runProbe selects when p has no Exec handler
PortHandler(p) == IF p.HTTPGet # NilPtr THEN p.HTTPGet ELSE p.TCPSocket

\* a port reference resolves to the number it holds, to the number of the first
\* declared port with its name, or else to the integer its name spells; 0 - 1
\* stands for a reference that resolves to nothing
ResolvesTo(ref, container) ==
    CASE ref.Type = "Int" -> ref.IntVal
      [] ref.Type = "String" ->
            IF findPortByName(container, ref.StrVal).err = Nil
            THEN findPortByName(container, ref.StrVal).port
            ELSE IF Atoi(ref.StrVal).err = Nil THEN Atoi(ref.StrVal).val ELSE 0 - 1
      [] OTHER -> 0 - 1

\* C8: for an HTTPGet or TCPSocket probe, a port reference that resolves to p
\* with 0 < p < 65536 has every attempt invoke the handler's primitive with p;
\* for every other port reference every attempt returns Unknown with an error
\* and no primitive is invoked, on each of the cycle's 3 attempts.
C8_PortRangeGuardsThePrimitive ==
    ( /\ ppc # "idle"
      /\ probeIn.probeSpec # NilPtr
      /\ probeIn.probeSpec.Exec = NilPtr
      /\ PortHandler(probeIn.probeSpec) # NilPtr )
    => LET p == ResolvesTo(PortHandler(probeIn.probeSpec).Port, probeIn.container)
           kind == IF probeIn.probeSpec.HTTPGet # NilPtr THEN "http" ELSE "tcp"
       IN IF 0 < p /\ p < 65536
          THEN /\ Len(invoked) = Len(tries)
               /\ \A k \in 1..Len(invoked) : invoked[k] = [prober |-> kind, port |-> p]
          ELSE /\ invoked = <<>>
               /\ \A k \in 1..Len(tries) : tries[k].result = Unknown /\ tries[k].err # Nil
               /\ ppc = "done" => (Len(tries) = 3 /\ probeRet.err # Nil)

C8_Witness ==
    /\ ppc = "done"
    /\ probeIn.probeSpec = ProbeOf(NilPtr, NilPtr, TCPSocketAction(StrRef(<<"z">>)))
    /\ Len(tries) = 3
    /\ invoked = <<>>

\* a probe declaration with no handler
NoHandler(p) == p.Exec = NilPtr /\ p.HTTPGet = NilPtr /\ p.TCPSocket = NilPtr

\* C9 as stated: a probe spec with none of Exec, HTTPGet and TCPSocket populated
\* returns Success and invokes no probe primitive.
C9_NoHandlerReturnsSuccess ==
    ( /\ ppc = "done"
      /\ probeIn.probeSpec = NilPtr \/ NoHandler(probeIn.probeSpec) )
    => (probeRet = [result |-> Success, err |-> Nil] /\ invoked = <<>>)

\* C9 amended: an absent probe declaration returns Success with no attempt and
\* no primitive invoked; a declaration with none of Exec, HTTPGet and TCPSocket
\* populated invokes no primitive either, but each of its 3 attempts returns
\* Unknown with a missing-handler error and probe() returns Failure with it.
C9_NoHandlerIsAnError ==
    ppc = "done" =>
        /\ probeIn.probeSpec = NilPtr =>
              /\ probeRet = [result |-> Success, err |-> Nil]
              /\ invoked = <<>>
              /\ tries = <<>>
        /\ (probeIn.probeSpec # NilPtr /\ NoHandler(probeIn.probeSpec)) =>
              /\ invoked = <<>>
              /\ Len(tries) = 3
              /\ \A k \in 1..3 : tries[k].result = Unknown /\ tries[k].err # Nil
              /\ probeRet.result = Failure
              /\ probeRet.err # Nil

C9_Witness ==
    /\ ppc = "done"
    /\ probeIn.probeSpec = ProbeOf(NilPtr, NilPtr, NilPtr)
    /\ probeRet.result = Failure
    /\ invoked = <<>>

\* C10: IsRetryable is true exactly for the reasons TooManyRequests,
\* ServiceUnavailable and InternalServerError, so for every error that
\* NewTooManyRequests, NewServiceUnavailable and NewInternalServerError build.
C10_RetryableReasons ==
    errOut.done =>
        ( errOut.IsRetryable <=>
            ( /\ errVal.kind = "OperationError"
              /\ errVal.ErrStatus.Reason \in {ErrorReasonTooManyRequests,
                                              ErrorReasonServiceUnavailable,
                                              ErrorReasonInternalServerError} ) )

\* an int32 value as the Go int the classifier returns
AsGoInt(v) == [hi |-> IF v < 0 THEN 0 - 1 ELSE 0, lo |-> v]

\* C11: SuggestsClientDelay returns (Details.RetryAfterSeconds, true) for a
\* ServiceUnavailable error with Details, whatever the sign of the value;
\* otherwise (RetryAfterSeconds, true) when Details is present and the value is
\* positive, for any reason; otherwise (0, false). Errors with the same Details
\* and the same answer to "is the reason ServiceUnavailable" get the same
\* outcome, whether IsRetryable holds of them or not.
C11_ClientDelayCases ==
    errOut.done =>
        LET hasDetails == errVal.kind = "OperationError" /\ errVal.ErrStatus.Details # NilPtr
            got == errOut.SuggestsClientDelay
        IN /\ IF hasDetails /\ errVal.ErrStatus.Reason = ErrorReasonServiceUnavailable
              THEN got = [seconds |-> AsGoInt(errVal.ErrStatus.Details.RetryAfterSeconds),
                          ok |-> TRUE]
              ELSE IF hasDetails /\ errVal.ErrStatus.Details.RetryAfterSeconds > 0
              THEN got = [seconds |-> AsGoInt(errVal.ErrStatus.Details.RetryAfterSeconds),
                          ok |-> TRUE]
              ELSE got = [seconds |-> AsGoInt(0), ok |-> FALSE]
           /\ \A other \in ErrorValues :
                 ( /\ other.kind = "OperationError" /\ errVal.kind = "OperationError"
                   /\ other.ErrStatus.Details = errVal.ErrStatus.Details
                   /\ (other.ErrStatus.Reason = ErrorReasonServiceUnavailable)
                        = (errVal.ErrStatus.Reason = ErrorReasonServiceUnavailable) )
                 => SuggestsClientDelay(other) = got

C11_Witness ==
    /\ errOut.done
    /\ errVal.kind = "OperationError"
    /\ errVal.ErrStatus.Reason = ErrorReasonServiceUnavailable
    /\ errVal.ErrStatus.Details = ErrorDetails(0 - 30)
    /\ errOut.SuggestsClientDelay = [seconds |-> GoInt(0 - 1, 0 - 30), ok |-> TRUE]
    /\ ~errOut.IsRetryable

\* C12: for an error that does not expose Status(), IsNotFound is false,
\* IsRetryable is false and SuggestsClientDelay is (0, false); and IsNotFound is
\* true only of an error whose exposed reason is NotFound.
C12_ErrorsWithoutStatus ==
    errOut.done =>
        /\ errVal.kind # "OperationError" =>
              /\ ~errOut.IsNotFound
              /\ ~errOut.IsRetryable
              /\ errOut.SuggestsClientDelay = [seconds |-> AsGoInt(0), ok |-> FALSE]
        /\ errOut.IsNotFound =>
              (errVal.kind = "OperationError" /\ errVal.ErrStatus.Reason = ErrorReasonNotFound)

C12_Witness ==
    /\ errOut.done
    /\ errVal = PlainError("m2")
    /\ ~errOut.IsNotFound

\* the values the list gives for a name, in list order
ValuesFor(headerList, name) ==
    LET sel == SelectSeq(headerList, LAMBDA h : h.Name = name)
    IN [i \in 1..Len(sel) |-> sel[i].Value]

\* C13: buildHeader keeps every input value: for each name of the list the
\* map's value list is exactly the values the list gives for that name, in
\* list order, and the map has no name the list lacks.
C13_BuildHeaderKeepsEveryValue ==
    headerOut.done =>
        /\ DOMAIN headerOut.headers = {headerIn[i].Name : i \in 1..Len(headerIn)}
        /\ \A name \in DOMAIN headerOut.headers :
              headerOut.headers[name] = ValuesFor(headerIn, name)

C13_Witness ==
    /\ headerOut.done
    /\ headerIn = <<HTTPHeader("Accept", "b"), HTTPHeader("X-Probe", "c"), HTTPHeader("Accept", "a")>>
    /\ headerOut.headers["Accept"] = <<"b", "a">>
    /\ DOMAIN headerOut.headers = {"Accept", "X-Probe"}

\* the notifications owed for a consumed update: one for each workload of the
\* store it saw that has the update's unique-id and is not terminal, none for
\* an update that is no Failure
Owed(entry) ==
    IF entry.update.Result # Failure THEN <<>>
    ELSE LET live == SelectSeq(entry.pods,
                        LAMBDA p : p.UID = entry.update.PodUID /\ ~TerminalWorkload(p))
         IN [i \in 1..Len(live) |-> [namespace |-> live[i].Namespace, pod |-> live[i].Name]]

RECURSIVE OwedUpTo(_, _)
\* the notifications owed for the first n consumed updates, in their order
OwedUpTo(log, n) == IF n = 0 THEN <<>> ELSE OwedUpTo(log, n - 1) \o Owed(log[n])

\* C14: the dispatcher neither reorders nor coalesces: what the consumers have
\* received followed by what the outbound queue still holds is, in order, the
\* notifications owed for the consumed updates (one per Failure for a
\* resolvable workload that is not terminal), less only the one the dispatcher
\* is about to send.
C14_NoReorderNoCoalesce ==
    LET owed == OwedUpTo(consumedLog, Len(consumedLog))
        got  == deliveredLog \o updates
    IN /\ Len(got) <= Len(owed)
       /\ got = SubSeq(owed, 1, Len(got))
       /\ Len(owed) - Len(got) = IF lpc = "push" THEN 1 ELSE 0

\* two Failure updates in a row for one workload gave two notifications for it
C14_Witness ==
    /\ Len(consumedLog) = 2
    /\ consumedLog[1].update = [PodUID |-> "u1", Result |-> Failure]
    /\ consumedLog[2].update = [PodUID |-> "u1", Result |-> Failure]
    /\ deliveredLog = << [namespace |-> "default", pod |-> "web"] >>
    /\ updates = << [namespace |-> "default", pod |-> "web"] >>

\* the dispatcher is in the send of line 75 and the channel's buffer is full
BlockedOnFullQueue == lpc = "push" /\ Len(updates) = QueueCap

\* C15: the outbound queue never holds more than 20 LivenessUpdates; while it
\* holds 20 and the dispatcher has a send pending, the send neither completes
\* nor is given up and the dispatcher takes no raw update, the only change to
\* the queue being a consumer's receive; and a pending send the queue has room
\* for is delivered.
C15_Backpressure ==
    /\ [](Len(updates) <= QueueCap)
    /\ [][ BlockedOnFullQueue =>
              /\ lpc' = "push"
              /\ cur' = cur /\ scanPods' = scanPods /\ scanIdx' = scanIdx
              /\ curSent' = curSent
              /\ ~TakesUpdate
              /\ updates' \in {updates, Tail(updates)} ]_vars
    /\ (lpc = "push" /\ Len(updates) < QueueCap) ~> (lpc # "push" /\ curSent # <<>>)

C15_Witness ==
    /\ BlockedOnFullQueue
    /\ rawUpdates # <<>>
    /\ produced = QueueCap + 2

\* C16 as stated: once ctx is cancelled the consume loop exits in the end,
\* whatever it was doing.
C16_CancelledLoopExits == ctxDone ~> (lpc = "exited")

\* C16: once ctx is cancelled the consume loop exits in the end, unless it stays
\* for ever in a send on a full outbound queue that no consumer receives from;
\* the exit changes neither the outbound queue, which a consumer can still
\* receive from, nor the raw updates left in the stream.
C16_CancelledLoopExitsUnlessBlocked ==
    /\ (<>[]BlockedOnFullQueue) \/ (ctxDone ~> (lpc = "exited"))
    /\ [][ (lpc # "exited" /\ lpc' = "exited") =>
              (updates' = updates /\ rawUpdates' = rawUpdates) ]_vars
    /\ []((lpc = "exited" /\ updates # <<>>) => ENABLED ConsumerReceive)

C16_Witness ==
    /\ lpc = "exited"
    /\ ctxDone
    /\ updates # <<>>
    /\ rawUpdates # <<>>

\* the (namespace, workload, container) entries a readiness mapping records
Entries(rd) ==
    {<<ns, name, c>> \in UNION {UNION {{ns} \X {name} \X DOMAIN rd[ns][name] : name \in DOMAIN rd[ns]}
                                  : ns \in DOMAIN rd} : TRUE}

InertOps == {"Start", "SetPodStatus", "TerminatePod", "RemoveOrphanedStatuses"}

\* C19: the readiness mapping is empty at startup; no call of the tracker and
\* no change of the store removes a recorded (namespace, workload, container)
\* entry or a level of the mapping; and Start, SetPodStatus, TerminatePod and
\* RemoveOrphanedStatuses leave the mapping as it was.
C19_EntriesNeverRemoved ==
    /\ readiness = EmptyMap
    /\ [][ /\ Entries(readiness) \subseteq Entries(readiness')
           /\ DOMAIN readiness \subseteq DOMAIN readiness'
           /\ \A ns \in DOMAIN readiness : DOMAIN readiness[ns] \subseteq DOMAIN readiness'[ns]
           /\ (lastCall'.op \in InertOps /\ lastCall' # lastCall) => readiness' = readiness ]_vars

\* RemoveOrphanedStatuses returned after the store lost a workload
C19_Witness ==
    /\ lastCall.op = "RemoveOrphanedStatuses"
    /\ lastCall.podUIDs = {"u2"}
    /\ Len(pods) = 1 /\ pods[1].UID = "u2"
    /\ readiness = EmptyMap

\* the SetContainerReadiness calls begun so far: those that returned and those
\* under way
SetCalls == setDone \cup {setter[p].args : p \in {q \in Setters : setter[q].pc # "idle"}}

\* a returned call whose container no other call sets to another value
Uncontended(a) ==
    \A b \in SetCalls :
        (b.podUID = a.podUID /\ b.containerID = a.containerID) => b.ready = a.ready

\* the getters whose call has read the mapping
HasRead(g) == getter[g].pc \in {"runlock", "idle"} /\ getter[g].ret # Unset

\* C17: no write is lost and no partial level is seen: a
\* GetPodContainersReadiness for a workload that begins after two
\* SetContainerReadiness calls for two different resolvable containers of that
\* workload have returned gets a mapping with both entries and the values set;
\* and a mapping returned for a workload that exists is never without entries.
C17_NoLostWriteNoPartialLevel ==
    \A g \in Getters :
        HasRead(g) =>
            /\ \A a, b \in getter[g].after :
                  \A ia \in Resolved(pods, a.podUID, a.containerID),
                     ib \in Resolved(pods, b.podUID, b.containerID) :
                      ( /\ ia[1] = ib[1] /\ ia[2] # ib[2]
                        /\ pods[ia[1]].Namespace = getter[g].args.namespace
                        /\ pods[ia[1]].Name = getter[g].args.pod
                        /\ Uncontended(a) /\ Uncontended(b) )
                      => LET ca == pods[ia[1]].ContainerStatuses[ia[2]].Name
                             cb == pods[ib[1]].ContainerStatuses[ib[2]].Name
                             got == getter[g].ret.seen
                         IN /\ {ca, cb} \subseteq DOMAIN got
                            /\ got[ca] = a.ready /\ got[cb] = b.ready
            /\ getter[g].ret.ref # NilPtr => getter[g].ret.seen # EmptyMap

PortLookupMade ==
    /\ ppc # "idle"
    /\ probeIn.probeSpec # NilPtr
    /\ probeIn.probeSpec.Exec = NilPtr
    /\ PortHandler(probeIn.probeSpec) # NilPtr
    /\ PortHandler(probeIn.probeSpec).Port.Type \in {"Int", "String"}
    /\ tries # <<>>

\* every attempt so far invoked the primitive with port
AttemptsUsePort(port) ==
    /\ Len(invoked) = Len(tries)
    /\ \A k \in 1..Len(invoked) : invoked[k].port = port

\* every attempt so far returned Unknown with the error and invoked nothing
AttemptsFailWith(err) ==
    /\ invoked = <<>>
    /\ \A k \in 1..Len(tries) : tries[k].result = Unknown /\ tries[k].err = err

\* C20: a named port reference whose name is the name of a declared port
\* resolves to the number of the first declared port with that name, also when
\* the name spells an integer; only a name no declared port has is parsed as an
\* integer; an integer reference resolves to itself, whatever the declared
\* ports are named. (The resolved number then passes the range test of C8.)
C20_DeclaredNameBeforeInteger ==
    PortLookupMade =>
        LET ref    == PortHandler(probeIn.probeSpec).Port
            ports  == probeIn.container.Ports
            named  == {k \in 1..Len(ports) : ports[k].Name = ref.StrVal}
            first  == CHOOSE k \in named : \A j \in named : k <= j
            parsed == Atoi(ref.StrVal)
            Use(port) == IF 0 < port /\ port < 65536
                         THEN AttemptsUsePort(port)
                         ELSE AttemptsFailWith("invalid port number")
        IN IF ref.Type = "Int" THEN Use(ref.IntVal)
           ELSE IF named # {} THEN Use(ports[first].ContainerPort)
           ELSE IF parsed.err = Nil THEN Use(parsed.val)
           ELSE AttemptsFailWith(parsed.err)

\* the name "80" is the name of the declared port 9090, and 9090 was probed
C20_Witness ==
    /\ ppc = "done"
    /\ probeIn.probeSpec # NilPtr
    /\ probeIn.probeSpec.TCPSocket # NilPtr
    /\ probeIn.probeSpec.TCPSocket.Port = StrRef(<<"8", "0">>)
    /\ invoked # <<>>
    /\ invoked[1].port = 9090

\* the reason each construction helper names
NamedReason ==
    [h \in PlainHelpers \cup RetryHelpers |->
        CASE h = "NewNotFound" -> ErrorReasonNotFound
          [] h = "NewUnauthorized" -> ErrorReasonUnauthorized
          [] h = "NewBadRequest" -> ErrorReasonBadRequest
          [] h = "NewUnknownError" -> ErrorReasonUnknown
          [] h = "NewTooManyRequests" -> ErrorReasonTooManyRequests
          [] h = "NewInternalServerError" -> ErrorReasonInternalServerError
          [] h = "NewServiceUnavailable" -> ErrorReasonServiceUnavailable]

\* C21: an error built by a construction helper has Details exactly when its
\* reason is TooManyRequests, InternalServerError or ServiceUnavailable, and
\* none for NotFound, Unauthorized, BadRequest and Unknown; its reason is the
\* one the helper names; it carries the message and the cause it was given.
C21_DetailsInvariantOfHelpers ==
    errBuilt.helper # None =>
        /\ errVal.kind = "OperationError"
        /\ errVal.ErrStatus.Reason = NamedReason[errBuilt.helper]
        /\ (errVal.ErrStatus.Details # NilPtr) <=>
              (errVal.ErrStatus.Reason \in {ErrorReasonTooManyRequests,
                                            ErrorReasonInternalServerError,
                                            ErrorReasonServiceUnavailable})
        /\ errVal.ErrStatus.Message = errBuilt.message
        /\ errVal.ErrStatus.OrigErr = errBuilt.err

C21_Witness ==
    /\ errBuilt.helper = "NewBadRequest"
    /\ errVal.ErrStatus.Reason = ErrorReasonBadRequest
    /\ errVal.ErrStatus.Details = NilPtr
    /\ errVal.ErrStatus.OrigErr = "cause"

\* a Go int above zero: some bit above the low 32 set in a number that is not
\* negative, or none set and the low 32 bits not all zero
IsPositive(n) == n.hi > 0 \/ (n.hi = 0 /\ n.lo # 0)

\* C22: the retry-after hint comes back as it went in, for every
\* retryAfterSeconds n: SuggestsClientDelay of NewServiceUnavailable(msg, n,
\* cause) returns (n, true), whatever the sign of n; SuggestsClientDelay of
\* NewTooManyRequests(msg, n, cause) and of NewInternalServerError(msg, n,
\* cause) returns (n, true) when n > 0 and (0, false) when n <= 0.
C22_RetryAfterRoundTrip ==
    (errOut.done /\ errBuilt.helper \in RetryHelpers) =>
        LET n == errBuilt.retryAfterSeconds IN
        IF errBuilt.helper = "NewServiceUnavailable" \/ IsPositive(n)
        THEN errOut.SuggestsClientDelay = [seconds |-> n, ok |-> TRUE]
        ELSE errOut.SuggestsClientDelay = [seconds |-> GoInt(0, 0), ok |-> FALSE]
====
